---- MODULE Spec2Model ----
(***************************************************************************)
(* Model of the PICOBOOT WebUSB driver (class Picoboot) and of the UF2     *)
(* loader built on it (class Picotool, in its two versions).               *)
(*                                                                         *)
(* The state is the driver object's fields (device, token), the state of   *)
(* the USBDevice handle the driver holds, and every call of a driver or    *)
(* loader method with the point it is suspended at (an async function runs *)
(* synchronously up to its first await; each completion of an awaited USB  *)
(* promise is one more step).  `wire` records every bulk transfer the      *)
(* driver asks of the device, `built` every command packet the packet      *)
(* builder fills in.                                                       *)
(***************************************************************************)
EXTENDS Integers, Sequences, FiniteSets, TLC

VARIABLES
    device,     \* this.device with the state of the USBDevice it refers to, or NULL
    token,      \* this.token
    epoch,      \* number of times connect() has reset the token (history)
    uf2Data,    \* the firmware image handed to Picotool.load
    calls,      \* every method call made so far, with its position
    wire,       \* every transferOut / transferIn asked of the device (history)
    built       \* every packet filled in by #buildCmdPacketBase (history)

vars == <<device, token, epoch, uf2Data, calls, wire, built>>

---------------------------------------------------------------------------
(* Bounds of the model *)

\* number of method calls the client makes
MaxCalls == 3
\* number of whole 512-byte blocks in the image
MaxBlocks == 2

---------------------------------------------------------------------------
(* Program constants *)

sectorSize == 4096
pageSize == 256
blockSize == 512
\* 0x431fd10b
PICOBOOT_MAGIC == 1126158603
\* PICOBOOT_EXCLUSIVE_MODES
NOT_EXCLUSIVE == 0
EXCLUSIVE == 1
EXCLUSIVE_AND_EJECT == 2

---------------------------------------------------------------------------
(* JavaScript values: undefined, ArrayBuffer, Uint8Array *)

Undefined == [type |-> "undefined", bytes |-> <<>>]

ArrayBuffer(b) == [type |-> "ArrayBuffer", bytes |-> b]

\* new ArrayBuffer(n): n zero bytes
Zeros(n) == [i \in 1..n |-> 0]

\* new Uint8Array(x): a view of an ArrayBuffer, a copy of a typed array, and
\* an array of length 0 when x is undefined
Uint8Array(x) == [type |-> "Uint8Array", bytes |-> x.bytes]

\* new DataView(x) throws a TypeError unless x is an ArrayBuffer
DataViewThrows(x) == x.type # "ArrayBuffer"

Pow256(k) == IF k = 0 THEN 1 ELSE IF k = 1 THEN 256 ELSE IF k = 2 THEN 65536 ELSE 16777216

\* DataView.setUint8(off, v)
setUint8(b, off, v) == [b EXCEPT ![off + 1] = v % 256]

\* DataView.setUint32(off, v, true): four bytes, little-endian
setUint32(b, off, v) ==
    [i \in 1..Len(b) |->
        IF i \in (off + 1)..(off + 4) THEN (v \div Pow256(i - off - 1)) % 256 ELSE b[i]]

\* DataView.getUint32(off, true)
getUint32(b, off) ==
    b[off + 1] + 256 * b[off + 2] + 65536 * b[off + 3] + 16777216 * b[off + 4]

---------------------------------------------------------------------------
(* The USB devices the host may offer, and the handle the driver holds *)

NULL ==
    [name |-> "null", vendorId |-> 0, productId |-> 0,
     opened |-> FALSE, claimed |-> FALSE]

\* 0x2E8A:0x0003, 0x2E8A:0x000F and a device of another family
USBDevices ==
    { [name |-> "RP2040", vendorId |-> 11914, productId |-> 3],
      [name |-> "RP2350", vendorId |-> 11914, productId |-> 15],
      [name |-> "ESP32",  vendorId |-> 12346, productId |-> 4097] }

\* the filter list of picoboot-connect.test.js
PicoFilters ==
    { [vendorId |-> 11914, productId |-> 3], [vendorId |-> 11914, productId |-> 15] }

FilterLists == { PicoFilters }

\* navigator.usb.requestDevice({filters}): the handles the user can select
requestDevice(filters) ==
    { [name |-> d.name, vendorId |-> d.vendorId, productId |-> d.productId,
       opened |-> FALSE, claimed |-> FALSE] :
         d \in { x \in USBDevices :
                   [vendorId |-> x.vendorId, productId |-> x.productId] \in filters } }

---------------------------------------------------------------------------
(* UF2 images *)

Addrs == { 268435456, 268435712, 268439552 }   \* 0x10000000, 0x10000100, 0x10001000

PayloadSizes == { 256 }

Blocks == [addr : Addrs, size : PayloadSizes]

RECURSIVE SeqsUpTo(_, _)
SeqsUpTo(S, n) ==
    IF n = 0 THEN { <<>> }
    ELSE LET shorter == SeqsUpTo(S, n - 1) IN
         shorter \cup { Append(s, x) : s \in { t \in shorter : Len(t) = n - 1 }, x \in S }

\* an image: whole blocks followed by `tail` bytes of an incomplete block
Images == [blocks : SeqsUpTo(Blocks, MaxBlocks), tail : {0, 100}]

byteLength(image) == blockSize * Len(image.blocks) + image.tail

---------------------------------------------------------------------------
(* Method calls *)

\* a call being made now: its arguments and the session it is made on
NewCall(op, addr, size) ==
    [op |-> op, addr |-> addr, size |-> size, filters |-> {}, dev |-> device,
     pc |-> "running", err |-> "none", w |-> 0, step |-> 0]

CanCall == Len(calls) < MaxCalls

\* the promise of a call made now is fulfilled / rejected before the call returns
Return(c) == calls' = Append(calls, [c EXCEPT !.pc = "resolved"])

Throw(c, e) == calls' = Append(calls, [c EXCEPT !.pc = "rejected", !.err = e])

Settled(c) == c.pc \in {"resolved", "rejected"}

\* Picoboot.connected()
connected == device # NULL

---------------------------------------------------------------------------
(* Picoboot.#buildCmdPacketBase *)

\* the 32 bytes the builder fills in
PacketBase(tok, bCmdId, bCmdSize, dTransferLength) ==
    setUint32(
      setUint8(
        setUint8(
          setUint32(
            setUint32(Zeros(32), 0, PICOBOOT_MAGIC),
            4, tok),
          8, bCmdId),
        9, bCmdSize),
      12, dTransferLength)

\* the builder without its increment of the token
NextToken_stuck(tok) == tok

\* this.token += 1
NextToken(tok) == tok + 1

\* the value the builder hands back to its caller: the function ends without a
\* return statement, so the caller receives undefined
buildCmdPacketBase_return(tok, bCmdId, bCmdSize, dTransferLength) == Undefined

\* the builder's effect on the driver: one packet filled in, one token used
buildCmdPacketBase(bCmdId, bCmdSize, dTransferLength) ==
    /\ built' = Append(built, [call |-> Len(calls) + 1, epoch |-> epoch,
                               packet |-> PacketBase(token, bCmdId, bCmdSize, dTransferLength)])
    /\ token' = NextToken(token)

---------------------------------------------------------------------------
(* Picoboot.#sendPacket *)

\* whether the handle this.device refers to accepts transfers
Ready == device # NULL /\ device.opened /\ device.claimed

\* this.device.transferOut(3, new Uint8Array(packet)) asked by call i
WireOut(i, packet) ==
    [call |-> i, dir |-> "out", ep |-> 3, len |-> Len(Uint8Array(packet).bytes),
     data |-> Uint8Array(packet).bytes, ready |-> Ready, status |-> "pending"]

\* this.device.transferIn(4, 64) asked by call i
WireIn(i) ==
    [call |-> i, dir |-> "in", ep |-> 4, len |-> 64,
     data |-> <<>>, ready |-> Ready, status |-> "pending"]

\* first statement of #sendPacket, run inside the call c being made
sendPacket(c, packet) ==
    /\ wire' = Append(wire, WireOut(Len(calls) + 1, packet))
    /\ calls' = Append(calls, [c EXCEPT !.pc = "transferOut", !.w = Len(wire) + 1])

\* #sendPacket without its check of the status
StatusOk_unchecked(status) == TRUE

\* inPacket.status != "ok" is an error
StatusOk(status) == status = "ok"

\* how a transfer asked of the device can end: a transfer on a handle that is
\* not open and claimed is rejected; a bulk-OUT transfer that is not rejected is
\* "done" (the code does not read its result), a bulk-IN transfer yields a status
OutOutcomes(w) == IF w.ready /\ Ready THEN {"done", "throws"} ELSE {"throws"}

InOutcomes(w) == IF w.ready /\ Ready THEN {"ok", "stall", "throws"} ELSE {"throws"}

\* the payload of flashWrite: `size` bytes
Payload(size) == [type |-> "Uint8Array", bytes |-> Zeros(size)]

\* await this.device.transferOut(...) completes; then this.device.transferIn(4, 64)
transferOutDone(i) ==
    /\ calls[i].pc = "transferOut"
    /\ \E outcome \in OutOutcomes(wire[calls[i].w]) :
         LET done == [wire EXCEPT ![calls[i].w].status = outcome] IN
         IF outcome = "throws"
         THEN /\ wire' = done
              /\ calls' = [calls EXCEPT ![i].pc = "rejected", ![i].err = "USBError"]
         ELSE IF device = NULL
         THEN /\ wire' = done       \* this.device is null: TypeError
              /\ calls' = [calls EXCEPT ![i].pc = "rejected", ![i].err = "TypeError"]
         ELSE /\ wire' = Append(done, WireIn(i))
              /\ calls' = [calls EXCEPT ![i].pc = "transferIn", ![i].w = Len(wire) + 1]
    /\ UNCHANGED <<device, token, epoch, uf2Data, built>>

\* await this.device.transferIn(4, 64) completes; the status is checked; in
\* flashWrite the payload is then sent by a second #sendPacket
transferInDone(i) ==
    /\ calls[i].pc = "transferIn"
    /\ \E outcome \in InOutcomes(wire[calls[i].w]) :
         LET done == [wire EXCEPT ![calls[i].w].status = outcome] IN
         IF outcome = "throws"
         THEN /\ wire' = done
              /\ calls' = [calls EXCEPT ![i].pc = "rejected", ![i].err = "USBError"]
         ELSE IF ~StatusOk(outcome)
         THEN /\ wire' = done
              /\ calls' = [calls EXCEPT ![i].pc = "rejected", ![i].err = "Error"]
         ELSE IF calls[i].op = "flashWrite" /\ calls[i].step = 0
         THEN IF device = NULL
              THEN /\ wire' = done
                   /\ calls' = [calls EXCEPT ![i].pc = "rejected", ![i].err = "TypeError"]
              ELSE /\ wire' = Append(done, WireOut(i, Payload(calls[i].size)))
                   /\ calls' = [calls EXCEPT ![i].pc = "transferOut", ![i].step = 1,
                                             ![i].w = Len(wire) + 1]
         ELSE /\ wire' = done
              /\ calls' = [calls EXCEPT ![i].pc = "resolved"]
    /\ UNCHANGED <<device, token, epoch, uf2Data, built>>

---------------------------------------------------------------------------
(* Picoboot.connect / disconnect *)

Connecting == \E i \in 1..Len(calls) :
                 calls[i].pc \in {"requestDevice", "open", "claimInterface"}

\* connect(filters) is called: navigator.usb.requestDevice shows the chooser
\* (the browser shows one chooser at a time)
connect(filters) ==
    /\ CanCall
    /\ ~Connecting
    /\ calls' = Append(calls, [NewCall("connect", 0, 0) EXCEPT
                                  !.pc = "requestDevice", !.filters = filters])
    /\ UNCHANGED <<device, token, epoch, uf2Data, wire, built>>

\* the chooser is answered: cancelled, or a device is selected, stored in
\* this.device, and open() is asked of it
requestDeviceDone(i) ==
    /\ calls[i].pc = "requestDevice"
    /\ \E h \in requestDevice(calls[i].filters) \cup {NULL} :
         IF h = NULL
         THEN /\ calls' = [calls EXCEPT ![i].pc = "rejected", ![i].err = "NotFoundError"]
              /\ UNCHANGED device
         ELSE /\ device' = h
              /\ calls' = [calls EXCEPT ![i].pc = "open"]
    /\ UNCHANGED <<token, epoch, uf2Data, wire, built>>

\* open() completes; the configuration is tested; claimInterface(1) is asked.
\* With no active configuration the code evaluates `device.selectConfiguration(1)`,
\* and no variable `device` is declared: a ReferenceError
openDone(i) ==
    /\ calls[i].pc = "open"
    /\ \E outcome \in {"ok", "throws"}, configuration \in {"null", "active"} :
         IF outcome = "throws"
         THEN /\ calls' = [calls EXCEPT ![i].pc = "rejected", ![i].err = "USBError"]
              /\ UNCHANGED device
         ELSE IF device = NULL
         THEN /\ calls' = [calls EXCEPT ![i].pc = "rejected", ![i].err = "TypeError"]
              /\ UNCHANGED device
         ELSE /\ device' = [device EXCEPT !.opened = TRUE]
              /\ IF configuration = "null"
                 THEN calls' = [calls EXCEPT ![i].pc = "rejected", ![i].err = "ReferenceError"]
                 ELSE calls' = [calls EXCEPT ![i].pc = "claimInterface"]
    /\ UNCHANGED <<token, epoch, uf2Data, wire, built>>

\* connect without its reset of the token
claimInterfaceDone_noreset(i) ==
    /\ calls[i].pc = "claimInterface"
    /\ \E outcome \in {"ok", "throws"} :
         IF outcome = "throws"
         THEN /\ calls' = [calls EXCEPT ![i].pc = "rejected", ![i].err = "USBError"]
              /\ UNCHANGED <<device, token, epoch>>
         ELSE /\ device' = IF device = NULL THEN NULL ELSE [device EXCEPT !.claimed = TRUE]
              /\ token' = token
              /\ epoch' = epoch + 1
              /\ calls' = [calls EXCEPT ![i].pc = "resolved"]
    /\ UNCHANGED <<uf2Data, wire, built>>

\* claimInterface(1) completes; the token is reset
claimInterfaceDone(i) ==
    /\ calls[i].pc = "claimInterface"
    /\ \E outcome \in {"ok", "throws"} :
         IF outcome = "throws"
         THEN /\ calls' = [calls EXCEPT ![i].pc = "rejected", ![i].err = "USBError"]
              /\ UNCHANGED <<device, token, epoch>>
         ELSE /\ device' = IF device = NULL THEN NULL ELSE [device EXCEPT !.claimed = TRUE]
              /\ token' = 0
              /\ epoch' = epoch + 1
              /\ calls' = [calls EXCEPT ![i].pc = "resolved"]
    /\ UNCHANGED <<uf2Data, wire, built>>

\* disconnect without its test of this.device
disconnect_unguarded ==
    /\ CanCall
    /\ calls' = Append(calls, [NewCall("disconnect", 0, 0) EXCEPT !.pc = "close"])
    /\ UNCHANGED <<device, token, epoch, uf2Data, wire, built>>

\* disconnect() is called
disconnect ==
    /\ CanCall
    /\ IF device = NULL
       THEN Return(NewCall("disconnect", 0, 0))
       ELSE calls' = Append(calls, [NewCall("disconnect", 0, 0) EXCEPT !.pc = "close"])
    /\ UNCHANGED <<device, token, epoch, uf2Data, wire, built>>

\* close() completes; this.device = null
closeDone(i) ==
    /\ calls[i].pc = "close"
    /\ \E outcome \in {"ok", "throws"} :
         IF outcome = "throws"
         THEN /\ calls' = [calls EXCEPT ![i].pc = "rejected", ![i].err = "USBError"]
              /\ UNCHANGED device
         ELSE /\ device' = NULL
              /\ calls' = [calls EXCEPT ![i].pc = "resolved"]
    /\ UNCHANGED <<token, epoch, uf2Data, wire, built>>

---------------------------------------------------------------------------
(* Picoboot commands *)

exclusive(exclusiveMode) ==
    /\ CanCall
    /\ LET c == NewCall("exclusive", exclusiveMode, 0) IN
       IF device = NULL
       THEN /\ Return(c)
            /\ UNCHANGED <<token, built, wire>>
       ELSE LET packet == buildCmdPacketBase_return(token, 1, 1, 0) IN
            /\ buildCmdPacketBase(1, 1, 0)
            /\ IF DataViewThrows(packet)
               THEN /\ Throw(c, "TypeError")
                    /\ UNCHANGED wire
               ELSE sendPacket(c, ArrayBuffer(setUint8(packet.bytes, 16, exclusiveMode)))
    /\ UNCHANGED <<device, epoch, uf2Data>>

reboot_rp2040 ==
    /\ CanCall
    /\ LET c == NewCall("reboot_rp2040", 0, 0) IN
       IF device = NULL
       THEN /\ Return(c)
            /\ UNCHANGED <<token, built, wire>>
       ELSE LET packet == buildCmdPacketBase_return(token, 2, 12, 0) IN
            /\ buildCmdPacketBase(2, 12, 0)
            /\ IF DataViewThrows(packet)
               THEN /\ Throw(c, "TypeError")
                    /\ UNCHANGED wire
               ELSE sendPacket(c, ArrayBuffer(
                        setUint32(setUint8(setUint8(packet.bytes, 16, 0), 20, 0), 24, 22065)))
    /\ UNCHANGED <<device, epoch, uf2Data>>

reboot_rp2350 ==
    /\ CanCall
    /\ LET c == NewCall("reboot_rp2350", 0, 0) IN
       IF device = NULL
       THEN /\ Return(c)
            /\ UNCHANGED <<token, built, wire>>
       ELSE LET packet == buildCmdPacketBase_return(token, 10, 16, 0) IN
            /\ buildCmdPacketBase(10, 16, 0)
            /\ sendPacket(c, packet)
    /\ UNCHANGED <<device, epoch, uf2Data>>

exit_xip ==
    /\ CanCall
    /\ LET c == NewCall("exit_xip", 0, 0) IN
       IF device = NULL
       THEN /\ Return(c)
            /\ UNCHANGED <<token, built, wire>>
       ELSE LET packet == buildCmdPacketBase_return(token, 6, 0, 0) IN
            /\ buildCmdPacketBase(6, 0, 0)
            /\ sendPacket(c, packet)
    /\ UNCHANGED <<device, epoch, uf2Data>>

\* flashErase without its test of this.device
flashEraseBody_unguarded(c, address, size) ==
    LET packet == buildCmdPacketBase_return(token, 3, 8, 0) IN
    /\ buildCmdPacketBase(3, 8, 0)
    /\ IF DataViewThrows(packet)
       THEN /\ Throw(c, "TypeError")
            /\ UNCHANGED wire
       ELSE sendPacket(c, ArrayBuffer(
                setUint32(setUint32(packet.bytes, 16, address), 20, size)))

\* the body of flashErase(address, size), run inside the call c
flashEraseBody(c, address, size) ==
    IF device = NULL
    THEN /\ Return(c)
         /\ UNCHANGED <<token, built, wire>>
    ELSE LET packet == buildCmdPacketBase_return(token, 3, 8, 0) IN
         /\ buildCmdPacketBase(3, 8, 0)
         /\ IF DataViewThrows(packet)
            THEN /\ Throw(c, "TypeError")
                 /\ UNCHANGED wire
            ELSE sendPacket(c, ArrayBuffer(
                     setUint32(setUint32(packet.bytes, 16, address), 20, size)))

flashErase(address, size) ==
    /\ CanCall
    /\ flashEraseBody(NewCall("flashErase", address, size), address, size)
    /\ UNCHANGED <<device, epoch, uf2Data>>

\* Math.floor(address / sectorSize)
SectorIndex(address) == address \div sectorSize

flashEraseSector(address) ==
    /\ CanCall
    /\ LET sectorIndex == SectorIndex(address)
           sectorAddr  == sectorIndex * sectorSize
       IN  flashEraseBody(NewCall("flashEraseSector", address, 0), sectorAddr, sectorSize)
    /\ UNCHANGED <<device, epoch, uf2Data>>

flashWrite(address, size) ==
    /\ CanCall
    /\ LET c == NewCall("flashWrite", address, size) IN
       IF device = NULL
       THEN /\ Return(c)
            /\ UNCHANGED <<token, built, wire>>
       ELSE LET packet == buildCmdPacketBase_return(token, 5, 8, size) IN
            /\ buildCmdPacketBase(5, 8, size)
            /\ IF DataViewThrows(packet)
               THEN /\ Throw(c, "TypeError")
                    /\ UNCHANGED wire
               ELSE sendPacket(c, ArrayBuffer(
                        setUint32(setUint32(packet.bytes, 16, address), 20, size)))
    /\ UNCHANGED <<device, epoch, uf2Data>>

---------------------------------------------------------------------------
(* Picotool.load *)

\* the 512 bytes of a UF2 block: target address at offset 12, payload length
\* at offset 16 (little-endian)
BlockBytes(b) == setUint32(setUint32(Zeros(blockSize), 12, b.addr), 16, b.size)

\* data.slice(0, blockSize) of the image: a Uint8Array
FirstBlock(image) ==
    [type |-> "Uint8Array",
     bytes |-> IF Len(image.blocks) >= 1 THEN BlockBytes(image.blocks[1])
               ELSE Zeros(image.tail)]

\* load(uf2Data) of picotool.js.  On a connected driver the first statement
\* awaits exclusive(EXCLUSIVE_AND_EJECT), which runs inside this call: it uses a
\* token and then makes a DataView of the undefined packet, so the awaited
\* promise is already rejected.  The statements after line 19 (exit_xip, the
\* erased-sector set, the loop over the blocks) are therefore never run, and
\* no step of them appears below
load ==
    /\ CanCall
    /\ LET c == NewCall("load", 0, 0) IN
       IF ~connected
       THEN /\ Return(c)
            /\ UNCHANGED <<token, built, wire>>
       ELSE LET packet == buildCmdPacketBase_return(token, 1, 1, 0) IN
            /\ buildCmdPacketBase(1, 1, 0)
            /\ DataViewThrows(packet)
            /\ calls' = Append(calls, [c EXCEPT !.pc = "await_exclusive",
                                                !.err = "TypeError"])
            /\ UNCHANGED wire
    /\ UNCHANGED <<device, epoch, uf2Data>>

\* the await of the rejected promise resumes load, which rejects with its error
load_resume(i) ==
    /\ calls[i].pc = "await_exclusive"
    /\ calls' = [calls EXCEPT ![i].pc = "rejected"]
    /\ UNCHANGED <<device, token, epoch, uf2Data, wire, built>>

\* load(uf2Data) of the other version of the loader (part_001), which does not
\* call exclusive / exit_xip.  The loop runs while i < byteLength / 512; its
\* first iteration makes a DataView of a Uint8Array, which throws before the
\* block's header is read, so the rest of the loop body is never run
load_part001 ==
    /\ CanCall
    /\ LET c == NewCall("load_part001", 0, 0) IN
       IF ~connected
       THEN Return(c)
       ELSE IF ~(0 < byteLength(uf2Data))
       THEN Return(c)
       ELSE /\ DataViewThrows(FirstBlock(uf2Data))
            /\ Throw(c, "TypeError")
    /\ UNCHANGED <<device, token, epoch, uf2Data, wire, built>>

---------------------------------------------------------------------------
(* The specification *)

Init ==
    /\ device = NULL
    /\ token = 0
    /\ epoch = 0
    /\ uf2Data \in Images
    /\ calls = <<>>
    /\ wire = <<>>
    /\ built = <<>>

ExclusiveModes == {EXCLUSIVE_AND_EJECT}

\* 0x10000100
CallAddrs == { 268435712 }

Next ==
    \/ \E f \in FilterLists : connect(f)
    \/ disconnect
    \/ \E m \in ExclusiveModes : exclusive(m)
    \/ reboot_rp2040
    \/ reboot_rp2350
    \/ exit_xip
    \/ \E a \in CallAddrs : flashErase(a, sectorSize)
    \/ \E a \in CallAddrs : flashEraseSector(a)
    \/ \E a \in CallAddrs, n \in PayloadSizes : flashWrite(a, n)
    \/ load
    \/ load_part001
    \/ \E i \in 1..Len(calls) : requestDeviceDone(i)
    \/ \E i \in 1..Len(calls) : openDone(i)
    \/ \E i \in 1..Len(calls) : claimInterfaceDone(i)
    \/ \E i \in 1..Len(calls) : closeDone(i)
    \/ \E i \in 1..Len(calls) : transferOutDone(i)
    \/ \E i \in 1..Len(calls) : transferInDone(i)
    \/ \E i \in 1..Len(calls) : load_resume(i)

Spec == Init /\ [][Next]_vars

\* The driver alone does not read the image: the claims about the driver are
\* checked with one image, a single block at 0x10000100
DriverInit ==
    /\ Init
    /\ uf2Data = [blocks |-> << [addr |-> 268435712, size |-> 256] >>, tail |-> 0]

DriverSpec == DriverInit /\ [][Next]_vars

---------------------------------------------------------------------------
(* Vocabulary of the properties *)

LoadOps == {"load", "load_part001"}

CommandOps ==
    {"exclusive", "exit_xip", "flashErase", "flashEraseSector", "flashWrite",
     "reboot_rp2040", "reboot_rp2350"}

CallIds == 1..Len(calls)

WireIds == 1..Len(wire)

\* the call was made on a session: a handle that is open with its interface claimed
OnSession(c) == c.dev.opened /\ c.dev.claimed

\* the call ended with a failure reported by the USB transport
TransportFailed(c) == c.err \in {"USBError", "Error"}

\* the bulk-OUT transfers of call i that carry a command packet with this ID
CommandsSent(i, bCmdId) ==
    { p \in WireIds : /\ wire[p].call = i
                      /\ wire[p].dir = "out"
                      /\ wire[p].len = 32
                      /\ wire[p].data[9] = bCmdId }

\* the sectors the blocks of an image fall into
Sectors(image) == { SectorIndex(image.blocks[k].addr) : k \in 1..Len(image.blocks) }

\* a load made on a session has ended, and not because the transport failed
LoadEnded(i) ==
    /\ calls[i].op \in LoadOps
    /\ OnSession(calls[i])
    /\ Settled(calls[i])
    /\ ~TransportFailed(calls[i])

---------------------------------------------------------------------------
(* C1 *)

\* C1: a load on a connected session issues exactly K flash-erase commands,
\* K the number of distinct 4096-byte sectors the image's blocks fall into.
C1_LoadIssuesOneErasePerSector ==
    \A i \in CallIds :
        LoadEnded(i) =>
            Cardinality(CommandsSent(i, 3)) = Cardinality(Sectors(uf2Data))

---------------------------------------------------------------------------
(* C2 *)

\* C2: for every block of a load, the erase command of the sector of the
\* block's address is sent on bulk-OUT, and before any write command for an
\* address in that sector.
C2_EraseBeforeWrite ==
    \A i \in CallIds :
        LoadEnded(i) =>
            \A k \in 1..Len(uf2Data.blocks) :
                LET sector == SectorIndex(uf2Data.blocks[k].addr) IN
                \E p \in CommandsSent(i, 3) :
                    /\ getUint32(wire[p].data, 16) = sector * sectorSize
                    /\ \A q \in CommandsSent(i, 5) :
                          SectorIndex(getUint32(wire[q].data, 16)) = sector => p < q

---------------------------------------------------------------------------
(* C3 *)

\* the calls whose command was issued on a session and has not yet received
\* its status reply
InFlight ==
    { i \in CallIds : /\ calls[i].pc \in {"transferOut", "transferIn"}
                      /\ wire[calls[i].w].ready }

\* C3: on one session the driver never has two commands in flight.
C3_OneCommandInFlight == Cardinality(InFlight) <= 1

---------------------------------------------------------------------------
(* C5 *)

BuiltIds == 1..Len(built)

\* the token written at offset 4 of a packet
TokenOf(packet) == getUint32(packet, 4)

\* C5: counting from the last reset of the token by connect(), the n-th
\* command built (n from 0) carries token n, the counter has grown by one per
\* command built, and every command call made on a driver that holds a device,
\* flashWrite included, builds exactly one packet and so uses exactly one token.
C5_OneTokenPerCommand ==
    /\ token = Cardinality({ j \in BuiltIds : built[j].epoch = epoch })
    /\ \A j \in BuiltIds :
          TokenOf(built[j].packet) =
              Cardinality({ k \in 1..(j - 1) : built[k].epoch = built[j].epoch })
    /\ \A j, k \in BuiltIds :
          (j # k /\ built[j].epoch = built[k].epoch) =>
              TokenOf(built[j].packet) # TokenOf(built[k].packet)
    /\ \A i \in CallIds :
          (calls[i].op \in CommandOps /\ calls[i].dev # NULL) =>
              Cardinality({ j \in BuiltIds : built[j].call = i }) = 1

\* a flashWrite was the second command built on a session that connect() set up
C5_Witness ==
    \E j \in BuiltIds :
        /\ built[j].epoch >= 1
        /\ calls[built[j].call].op = "flashWrite"
        /\ OnSession(calls[built[j].call])
        /\ TokenOf(built[j].packet) = 1

---------------------------------------------------------------------------
(* C6 *)

\* the first transfer a call asks for is the transfer of its command packet
IsCommandTransfer(p) ==
    /\ wire[p].dir = "out"
    /\ \A q \in 1..(p - 1) : wire[q].call # wire[p].call

\* C6: the packet handed to the bulk-OUT transfer of a command is 32 bytes long,
\* with the magic at offset 0 and the token, command ID, command-arg length and
\* transfer length the builder wrote for that command at offsets 4, 8, 9 and 12.
C6_PacketLayout ==
    \A p \in WireIds :
        (IsCommandTransfer(p) /\ wire[p].ready) =>
            /\ wire[p].len = 32
            /\ getUint32(wire[p].data, 0) = PICOBOOT_MAGIC
            /\ \E j \in BuiltIds :
                  /\ built[j].call = wire[p].call
                  /\ SubSeq(wire[p].data, 1, 16) = SubSeq(built[j].packet, 1, 16)

---------------------------------------------------------------------------
(* C7 *)

\* C7: when connect() fails on a driver that held no device, and it is the only
\* connect() made, connected() is false and no call made after it has asked
\* for a transfer.
C7_FailedConnectNoSession ==
    \A i \in CallIds :
        ( /\ calls[i].op = "connect"
          /\ calls[i].pc = "rejected"
          /\ calls[i].dev = NULL
          /\ \A j \in CallIds : j # i => calls[j].op # "connect" )
        => ( /\ ~connected
             /\ \A p \in WireIds : wire[p].call < i )

---------------------------------------------------------------------------
(* C8 *)

---------------------------------------------------------------------------
(* C9 *)

\* the next transfer of the same call after transfer p, if any
NextOfCall(p) ==
    { q \in WireIds : /\ q > p
                      /\ wire[q].call = wire[p].call
                      /\ \A r \in (p + 1)..(q - 1) : wire[r].call # wire[p].call }

Disconnected == \E j \in CallIds : calls[j].op = "disconnect" /\ calls[j].pc = "resolved"

---------------------------------------------------------------------------
(* C10 *)

\* C10: a load on a session that completes has sent exactly one reboot
\* command, the RP2040 one (ID 2) for a product name with "RP2040", the RP2350
\* one (ID 10) for a name with "RP2350"; with any other name the load fails
\* with UnknownDeviceError and sends no reboot command.
C10_RebootByProductName ==
    \A i \in CallIds :
        (calls[i].op \in LoadOps /\ OnSession(calls[i])) =>
            /\ (calls[i].pc = "resolved" /\ calls[i].dev.name = "RP2040") =>
                  /\ Cardinality(CommandsSent(i, 2)) = 1
                  /\ Cardinality(CommandsSent(i, 10)) = 0
            /\ (calls[i].pc = "resolved" /\ calls[i].dev.name = "RP2350") =>
                  /\ Cardinality(CommandsSent(i, 10)) = 1
                  /\ Cardinality(CommandsSent(i, 2)) = 0
            /\ (Settled(calls[i]) /\ calls[i].dev.name \notin {"RP2040", "RP2350"}) =>
                  /\ calls[i].err = "UnknownDeviceError"
                  /\ CommandsSent(i, 2) \cup CommandsSent(i, 10) = {}

---------------------------------------------------------------------------
(* C11 *)

\* the status reply of the command sent by transfer p has been read as "ok"
StatusReplied(p) ==
    \E q \in NextOfCall(p) : wire[q].dir = "in" /\ wire[q].status = "ok"

\* the exclusive commands of call i that carry mode EXCLUSIVE_AND_EJECT
\* (argument byte at offset 0x10)
ExclusiveAndEjectSent(i) ==
    { p \in CommandsSent(i, 1) : wire[p].data[17] = EXCLUSIVE_AND_EJECT }

\* C11: a load of picotool.js on a session sends the exclusive command with
\* mode EXCLUSIVE_AND_EJECT exactly once and the exit-XIP command exactly once,
\* in that order, each with its status reply read before any erase or write
\* command of the load is sent.
C11_ExclusiveThenExitXipOnce ==
    \A i \in CallIds :
        (calls[i].op = "load" /\ LoadEnded(i)) =>
            \E p, q \in WireIds :
                /\ CommandsSent(i, 1) = {p}
                /\ ExclusiveAndEjectSent(i) = {p}
                /\ CommandsSent(i, 6) = {q}
                /\ p < q
                /\ StatusReplied(p)
                /\ StatusReplied(q)
                /\ \A r \in CommandsSent(i, 3) \cup CommandsSent(i, 5) :
                      \E s \in NextOfCall(q) : s < r

---------------------------------------------------------------------------
(* C12 *)

\* the image is a whole number of 512-byte blocks
WholeBlocks(image) == byteLength(image) % blockSize = 0

\* C12: a load on a session of an image whose length is not a multiple of 512
\* ends with an image-format error, and has sent no erase or write command.
C12_PartialBlockRejected ==
    \A i \in CallIds :
        ( /\ calls[i].op \in LoadOps
          /\ OnSession(calls[i])
          /\ Settled(calls[i])
          /\ ~WholeBlocks(uf2Data) )
        => ( /\ calls[i].pc = "rejected"
             /\ calls[i].err = "ImageFormatError"
             /\ CommandsSent(i, 3) \cup CommandsSent(i, 5) = {} )

---------------------------------------------------------------------------
(* C14 *)

\* a command sent on the session set up by the only connect() made so far has
\* failed in the transport: a transfer threw, or the status reply was not "ok"
SessionTransportError ==
    \E i \in CallIds :
        /\ calls[i].op \in CommandOps
        /\ OnSession(calls[i])
        /\ calls[i].pc = "rejected"
        /\ TransportFailed(calls[i])
        /\ Cardinality({ j \in CallIds : calls[j].op = "connect" }) = 1

\* C14: once a command of the session has failed in the transport, and until
\* another connect() is made, connected() is false and a command that is
\* called asks for no transfer.
C14_TransportErrorEndsSession ==
    [][ SessionTransportError
        => ( /\ ~connected
             /\ ( /\ Len(calls') = Len(calls) + 1
                  /\ calls'[Len(calls')].op \in CommandOps )
                => wire' = wire ) ]_vars

---------------------------------------------------------------------------
(* C15 *)

\* packet j is the first one built since a connect() completed
FirstOfConnection(j) ==
    /\ built[j].epoch >= 1
    /\ \A k \in 1..(j - 1) : built[k].epoch # built[j].epoch

\* C15: every connect() that completes resets the token: the first command
\* built after it carries token 0, and until a command is built the counter is
\* 0, whatever the counter was before that connect().
C15_TokenResetOnConnect ==
    /\ \A j \in BuiltIds : FirstOfConnection(j) => TokenOf(built[j].packet) = 0
    /\ (epoch >= 1 /\ \A j \in BuiltIds : built[j].epoch # epoch) => token = 0

\* the counter had been used before connect() completed, and the first
\* command of the session that connect() set up carries token 0
C15_Witness ==
    \E j \in BuiltIds :
        /\ FirstOfConnection(j)
        /\ OnSession(calls[built[j].call])
        /\ \E k \in 1..(j - 1) : built[k].epoch < built[j].epoch
        /\ TokenOf(built[j].packet) = 0
        /\ token = 1

---------------------------------------------------------------------------
(* C16 *)

\* C16: a connect() with the filter list of the test page, made on a driver
\* on which disconnect() is never called, fails only when no device was
\* selected or when open() / claimInterface() failed; in particular it does
\* not fail because the device has no active configuration.  Otherwise it
\* completes and connected() is true.
C16_ConnectSucceeds ==
    \A i \in CallIds :
        ( /\ calls[i].op = "connect"
          /\ calls[i].filters = PicoFilters
          /\ Settled(calls[i])
          /\ \A j \in CallIds : calls[j].op # "disconnect" )
        => \/ calls[i].pc = "resolved" /\ connected
           \/ calls[i].pc = "rejected" /\ calls[i].err \in {"NotFoundError", "USBError"}

---------------------------------------------------------------------------
(* C17 *)

\* this step is a call of disconnect()
DisconnectCalled ==
    /\ Len(calls') = Len(calls) + 1
    /\ calls'[Len(calls')].op = "disconnect"

---------------------------------------------------------------------------
(* C18 *)

\* the status replies call i has asked for
StatusReads(i) == { q \in WireIds : wire[q].call = i /\ wire[q].dir = "in" }

\* C18: a flashWrite(address, size, payload) on a session that the transport
\* did not fail has sent a write command whose transfer length (offset 12) is
\* size; the transfer asked right after it is the bulk-OUT transfer of the
\* size bytes of payload; and one status reply is read for the call.
C18_HeaderThenPayload ==
    \A i \in CallIds :
        ( /\ calls[i].op = "flashWrite"
          /\ OnSession(calls[i])
          /\ Settled(calls[i])
          /\ ~TransportFailed(calls[i]) )
        => /\ \E p \in CommandsSent(i, 5) :
                 /\ getUint32(wire[p].data, 12) = calls[i].size
                 /\ p + 1 \in WireIds
                 /\ wire[p + 1].call = i
                 /\ wire[p + 1].dir = "out"
                 /\ wire[p + 1].len = calls[i].size
           /\ Cardinality(StatusReads(i)) = 1

---------------------------------------------------------------------------
(* C19 *)

\* C19: a flashEraseSector(address) on a session that the transport did not
\* fail has sent exactly one erase command, whose address argument (offset
\* 0x10) is floor(address / 4096) * 4096 and whose size argument (offset 0x14)
\* is 4096.
C19_EraseOneAlignedSector ==
    \A i \in CallIds :
        ( /\ calls[i].op = "flashEraseSector"
          /\ OnSession(calls[i])
          /\ Settled(calls[i])
          /\ ~TransportFailed(calls[i]) )
        => \E p \in WireIds :
              /\ CommandsSent(i, 3) = {p}
              /\ getUint32(wire[p].data, 16) = SectorIndex(calls[i].addr) * sectorSize
              /\ getUint32(wire[p].data, 20) = sectorSize

---------------------------------------------------------------------------
(* C20 *)

RebootOps == {"reboot_rp2040", "reboot_rp2350"}

\* the packet is a 32-byte command packet with a non-zero delay argument:
\* reboot_rp2040 writes its delay at offset 0x18; reboot_rp2350 writes no
\* argument, so for it any non-zero byte among the arguments (offsets 0x10 to
\* 0x1f) is accepted
DelayNonZero(op, data) ==
    /\ Len(data) = 32
    /\ IF op = "reboot_rp2040"
       THEN getUint32(data, 24) # 0
       ELSE \E k \in 17..32 : data[k] # 0

\* C20: every packet a reboot command hands to bulk-OUT on a session is a
\* command packet with a non-zero delay argument, and a reboot command that
\* the transport did not fail has sent one.
C20_RebootDelayNonZero ==
    /\ \A p \in WireIds :
          ( /\ calls[wire[p].call].op \in RebootOps
            /\ wire[p].dir = "out"
            /\ wire[p].ready )
          => DelayNonZero(calls[wire[p].call].op, wire[p].data)
    /\ \A i \in CallIds :
          ( /\ calls[i].op \in RebootOps
            /\ OnSession(calls[i])
            /\ Settled(calls[i])
            /\ ~TransportFailed(calls[i]) )
          => \E p \in WireIds :
                /\ wire[p].call = i
                /\ wire[p].dir = "out"
                /\ DelayNonZero(calls[i].op, wire[p].data)

---------------------------------------------------------------------------
(* C21 *)

\* a set of transfers as the sequence in the order they were asked
RECURSIVE InOrder(_)
InOrder(S) ==
    IF S = {} THEN <<>>
    ELSE LET first == CHOOSE p \in S : \A q \in S : p <= q
         IN  <<first>> \o InOrder(S \ {first})

\* C21: a load on a session of an image of N blocks has sent exactly N write
\* commands, the k-th carrying (offsets 0x10, 0x14) the address and the payload
\* length read from offsets 12 and 16 of the k-th block of the file.
C21_OneWritePerBlockInOrder ==
    \A i \in CallIds :
        LoadEnded(i) =>
            LET writes == InOrder(CommandsSent(i, 5)) IN
            /\ Len(writes) = Len(uf2Data.blocks)
            /\ \A k \in 1..Len(writes) :
                  /\ getUint32(wire[writes[k]].data, 16) =
                         getUint32(BlockBytes(uf2Data.blocks[k]), 12)
                  /\ getUint32(wire[writes[k]].data, 20) =
                         getUint32(BlockBytes(uf2Data.blocks[k]), 16)

---------------------------------------------------------------------------
(* C23 *)

\* C23: when two loads of the same loader have ended on a session, each of
\* them, the second as well as the first, has sent one erase command per sector
\* its image touches (the second load is not required to have been called
\* after the first ended: the erased-sector set is a local of each call).
C23_FreshErasedSetPerLoad ==
    \A i, j \in CallIds :
        ( /\ i < j
          /\ calls[i].op = calls[j].op
          /\ LoadEnded(i)
          /\ LoadEnded(j) )
        => /\ Cardinality(CommandsSent(i, 3)) = Cardinality(Sectors(uf2Data))
           /\ Cardinality(CommandsSent(j, 3)) = Cardinality(Sectors(uf2Data))

====
